---------------------------- MODULE Spec2Model ----------------------------
(***************************************************************************)
(* Session lifecycle of the wasender gateway.                              *)
(*                                                                         *)
(* The repository holds four servers that share one HTTP surface:          *)
(*   "wwebjs"          src/server.js:1-479          (whatsapp-web.js)      *)
(*   "baileys_nodelay" src/server.js:481-767        (Baileys, retry at once)*)
(*   "wwebjs_old"      src/unnamed/part_000:1-282   (older whatsapp-web.js)*)
(*   "baileys"         src/unnamed/part_000:284-718 (Baileys, retry timer) *)
(* impl says which one is running; it is chosen at start and never         *)
(* changes.  Every handler is translated up to its next await: an await    *)
(* is a suspension point at which any other handler, event or timer may    *)
(* run (Node's single-threaded event loop).  A suspended handler is an     *)
(* element of the bag inflight.                                            *)
(***************************************************************************)
EXTENDS Naturals, Sequences, FiniteSets, Bags

Accounts == {"acct1", "acct2"}
OneAccount == {"acct1"}
Phones == {"15551234567"}
QRs == {"q1", "q2"}
Impls == {"wwebjs", "baileys_nodelay", "baileys", "wwebjs_old"}

\* Limits of a run: transport instances ever created per account, handlers
\* suspended at the same time, QR renderings in flight at the same time.  Each
\* is 1 at least; Spare is the number of units above that which a run of Spec
\* may spend, on any of the three.
Spare == 0
Limit(i, j, k, count, qrs) ==
    [transports |-> 1 + i, inflight |-> 1 + j, renders |-> 1 + k,
     accounts |-> OneAccount, count |-> count, qrs |-> qrs]
Limits(n) ==
    {Limit(x[1], x[2], x[3], 0, {"q1"}) :
        x \in {y \in (0..n) \X (0..n) \X (0..n) : y[1] + y[2] + y[3] <= n}}

VARIABLES
    impl,             \* which server file is running
    sessions,         \* Map account -> transport id (sessions / whatsappClients)
    qrCodes,          \* Map account -> rendered QR
    connectionStatus, \* Map account -> [connected, phone, authenticating]
    transports,       \* every transport instance created so far (id = index)
    inflight,         \* bag of suspended handlers [kind, acct, pc, sock, route]
    startingBg,       \* account -> startSession calls of the reconnect logic, suspended
    timers,           \* account -> number of reconnect timers (setTimeout 5000) pending
    renders,          \* QRCode.toDataURL calls in flight [acct, qr, newer]
    authFiles,        \* accounts whose credential directory exists
    out,              \* what the last step sent out: its HTTP response, its notifications
    running,          \* the Node process is running (FALSE once it has exited)
    cap               \* the limits this run explores: [transports, inflight, renders, accounts, count, qrs]

vars == <<impl, sessions, qrCodes, connectionStatus, transports, inflight, startingBg,
          timers, renders, authFiles, out, running, cap>>

IsBaileys == impl \in {"baileys_nodelay", "baileys"}
IsWweb == impl = "wwebjs"
IsOld == impl = "wwebjs_old"

--------------------------------------------------------------------------
\* JavaScript Map
EmptyMap == [x \in {} |-> TRUE]
MapHas(m, k) == k \in DOMAIN m
MapSet(m, k, v) == [x \in (DOMAIN m) \cup {k} |-> IF x = k THEN v ELSE m[x]]
MapDelete(m, k) == [x \in (DOMAIN m) \ {k} |-> m[x]]

\* { connected: false, phone: null }
StatusDisconnected == [connected |-> FALSE, phone |-> "null", authenticating |-> FALSE]
StatusConnected(p) == [connected |-> TRUE, phone |-> p, authenticating |-> FALSE]

\* QRCode.toDataURL(qr)
ToDataURL(q) == <<"data:image/png;base64", q>>

\* sock.user.id.split(':')[0] ; the transport reports "<phone>:<device>@..."
UserId(p) == <<p, "device">>
SplitColon0(id) == id[1]

TransportIds == 1..Len(transports)
Live(t) == transports[t].st \in {"connecting", "open"}
TransportsOf(a) == {t \in TransportIds : transports[t].acct = a}
LiveOf(a) == {t \in TransportsOf(a) : Live(t)}
\* the transports whose events are explored: those of the accounts that act
Emitting == {t \in TransportIds : transports[t].acct \in cap.accounts}

\* The state of the design's table (spec 4.1) that the tables put an account in
AccountState(a) ==
    IF ~MapHas(sessions, a) THEN "Idle"
    ELSE IF transports[sessions[a]].st = "open" THEN "Connected"
    ELSE IF transports[sessions[a]].st # "connecting" THEN "Closing"
    ELSE IF MapHas(qrCodes, a) THEN "AwaitingScan"
    ELSE IF MapHas(connectionStatus, a) /\ connectionStatus[a].authenticating
         THEN "Authenticating"
    ELSE "Initializing"
MidHandshake == {"Initializing", "AwaitingScan", "Authenticating"}

\* What a connect request finds on arrival: "unseen" when the account has no
\* record, never had a transport and is not being restored or retried
Saw(a) ==
    IF AccountState(a) = "Connected" THEN "connected"
    ELSE IF AccountState(a) \in MidHandshake THEN "handshake"
    ELSE IF /\ ~MapHas(sessions, a) /\ TransportsOf(a) = {}
            /\ startingBg[a] = 0 /\ timers[a] = 0 THEN "unseen"
    ELSE "other"

\* GET /api/whatsapp/status: the body res.json sends
NullQr == <<>>
Status(a) ==
    LET qr == IF MapHas(qrCodes, a) THEN qrCodes[a] ELSE NullQr
        status == IF MapHas(connectionStatus, a) THEN connectionStatus[a]
                  ELSE StatusDisconnected
    IN IF IsWweb
       THEN LET connected == MapHas(sessions, a) /\ transports[sessions[a]].info # "null"
            IN [qr |-> qr, connected |-> connected,
                authenticating |-> status.authenticating,
                phone |-> IF connected THEN transports[sessions[a]].info ELSE status.phone]
       ELSE [qr |-> qr, connected |-> status.connected,
             authenticating |-> ~status.connected /\ qr = NullQr /\ MapHas(sessions, a),
             phone |-> status.phone]

\* a transport instance (makeWASocket / new Client).  logouts, destroys and
\* notes count the calls of logout() and destroy() on it and the "disconnected"
\* notifications of its teardown
NewTransport(a) ==
    [acct |-> a, st |-> "connecting", info |-> "null",
     logouts |-> 0, destroys |-> 0, notes |-> 0]

\* what a step sends out
NoResp == [kind |-> "none", acct |-> "", code |-> 0, body |-> "", phone |-> "null"]
Resp(kind, a, code, body) ==
    [kind |-> kind, acct |-> a, code |-> code, body |-> body, phone |-> "null"]
\* `if (!account_id) return res.status(400).json({ error: 'Account ID required' })`
Missing == ""
RespMissing == Resp("connect", Missing, 400, "Account ID required")
RespConnected(a, p) ==
    [kind |-> "connect", acct |-> a, code |-> 200, body |-> "connected", phone |-> p]
\* res.json(body) of GET /api/whatsapp/status
StatusResp(a, body) ==
    [kind |-> "status", acct |-> a, code |-> 200, body |-> body, phone |-> body.phone]
Out(resp, notes) == [resp |-> resp, notes |-> notes]
Silent == Out(NoResp, <<>>)
\* console.log(`... running on port ${PORT}`) of app.listen's callback
Listening == Out(Resp("log", "", 0, "running on port"), <<>>)
\* notifyPhpBackend(accountId, status, phone)
Notification(a, status, phone) == [acct |-> a, status |-> status, phone |-> phone]

\* a suspended handler.  saw and overtaken are kept for a connect request only:
\* what it found on arrival, and whether a disconnect of its account has
\* completed since.  terminal is FALSE for a cleanup that a 'disconnected' event
\* with a reason other than logout has started.  attempts and calls are kept for
\* a group-listing request: its `attempts` variable and the number of times it
\* has invoked getChats.  asked, numbers and results are kept for a check-numbers
\* request: the `numbers` array of its body, the part of it the loop has not
\* finished, and its `results` array
Suspended(kind, a, pc, sock, route) ==
    [kind |-> kind, acct |-> a, pc |-> pc, sock |-> sock, route |-> route,
     saw |-> IF kind = "connect" THEN Saw(a) ELSE "", overtaken |-> FALSE,
     terminal |-> TRUE, attempts |-> 0, calls |-> 0,
     asked |-> <<>>, numbers |-> <<>>, results |-> <<>>]
Suspend(r) == inflight (+) SetToBag({r})
Resume(r) == inflight (-) SetToBag({r})
Move(r, pc) == (inflight (-) SetToBag({r})) (+) SetToBag({[r EXCEPT !.pc = pc]})
CanSuspend == BagCardinality(inflight) < cap.inflight
Copies(b, r) == IF r \in DOMAIN b THEN b[r] ELSE 0
\* bag b with every suspended connect of account a marked as overtaken
Overtake(b, a) ==
    LET mark(r) == IF r.kind = "connect" /\ r.acct = a
                   THEN [r EXCEPT !.overtaken = TRUE] ELSE r
        unmark(m) == [m EXCEPT !.overtaken = FALSE]
    IN [m \in {mark(r) : r \in DOMAIN b} |->
          IF m.kind = "connect" /\ m.acct = a
          THEN Copies(b, m) + Copies(b, unmark(m))
          ELSE b[m]]

--------------------------------------------------------------------------
\* The state once app.listen's callback has run.  Credential directories may be
\* left from an earlier run; only the "baileys" server restores them
\* (initSessions: startSession(clientId) for every session-* folder, not awaited).
Start(c) ==
    /\ cap = c
    /\ impl \in Impls
    /\ running = TRUE
    /\ sessions = EmptyMap
    /\ qrCodes = EmptyMap
    /\ connectionStatus = EmptyMap
    /\ transports = <<>>
    /\ inflight = EmptyBag
    /\ authFiles \in SUBSET c.accounts
    /\ startingBg = [a \in Accounts |-> IF impl = "baileys" /\ a \in authFiles THEN 1 ELSE 0]
    /\ timers = [a \in Accounts |-> 0]
    /\ renders = {}
    /\ out = Listening

\* cap.qrs are the QR strings the transports emit.
\* cap.count is 1 where the calls made on each transport (logouts, destroys,
\* notes) are counted, and 0 where they are not recorded
Init == \E c \in Limits(Spare) : Start(c)

\* the same servers, explored one transport and one suspended handler further
InitWide == Start(Limit(1, 1, 0, 0, {"q1"}))

\* the same servers with two handlers suspended at a time on one transport per
\* account, and the calls made on each transport counted
InitOverlap == Start(Limit(0, 1, 0, 1, {"q1"}))

\* the same servers with two QR strings and two renderings in flight
InitQr == Start(Limit(0, 0, 1, 0, QRs))

Bystander == "acct2"
InitTwo ==
    /\ cap \in Limits(Spare)
    /\ impl \in Impls
    /\ running = TRUE
    /\ \E p \in Phones :
          /\ transports = <<[NewTransport(Bystander) EXCEPT !.st = "open", !.info = p]>>
          /\ connectionStatus = MapSet(EmptyMap, Bystander, StatusConnected(p))
    /\ sessions = MapSet(EmptyMap, Bystander, 1)
    /\ qrCodes = MapSet(EmptyMap, Bystander, ToDataURL("q1"))
    /\ inflight = EmptyBag
    /\ \E left \in SUBSET OneAccount : authFiles = left \cup {Bystander}
    /\ startingBg = [a \in Accounts |->
                        IF impl = "baileys" /\ a \in authFiles \ {Bystander} THEN 1 ELSE 0]
    /\ timers = [a \in Accounts |-> 0]
    /\ renders = {}
    /\ out = Silent

--------------------------------------------------------------------------
(* Steps the servers share *)

\* a qr handler suspended in QRCode.toDataURL(qr); newer is the QR string of the
\* latest qr event delivered for the account since this one (NoQr: none)
NoQr == ""
Rendering(a, q) == [acct |-> a, qr |-> q, newer |-> NoQr]

\* client.on('qr') / connection.update { qr }: the handler suspends in QRCode.toDataURL
OnQr(t, q) ==
    /\ running
    /\ transports[t].st = "connecting"
    /\ Cardinality(renders) < cap.renders
    /\ renders' = {IF rd.acct = transports[t].acct THEN [rd EXCEPT !.newer = q] ELSE rd :
                      rd \in renders}
                  \cup {Rendering(transports[t].acct, q)}
    /\ out' = Silent
    /\ UNCHANGED <<cap, impl, running, sessions, qrCodes, connectionStatus, transports, inflight,
                   startingBg, timers, authFiles>>

\* QRCode.toDataURL settles: qrCodes.set on success, the catch on failure
RenderDone(rd, ok) ==
    /\ running
    /\ rd \in renders
    /\ renders' = renders \ {rd}
    /\ qrCodes' = IF ok THEN MapSet(qrCodes, rd.acct, ToDataURL(rd.qr)) ELSE qrCodes
    /\ out' = Silent
    /\ UNCHANGED <<cap, impl, running, sessions, connectionStatus, transports, inflight, startingBg,
                   timers, authFiles>>

\* SendReturn as it would be if the catch treated a failed send as a lost
\* connection and reset the account's status
SendReturn_ResetsStatus(r, ok) ==
    /\ running
    /\ r \in BagToSet(inflight)
    /\ r.kind = "send"
    /\ inflight' = Resume(r)
    /\ out' = Out(IF ok THEN Resp("send", r.acct, 200, "Message sent")
                  ELSE Resp("send", r.acct, 500, "Failed to send"), <<>>)
    /\ connectionStatus' = IF ok THEN connectionStatus
                           ELSE MapSet(connectionStatus, r.acct, StatusDisconnected)
    /\ UNCHANGED <<cap, impl, running, sessions, qrCodes, transports, startingBg,
                   timers, renders, authFiles>>

\* sendMessage settles: res.json on success, the catch (500) on failure
SendReturn(r, ok) ==
    /\ running
    /\ r \in BagToSet(inflight)
    /\ r.kind = "send"
    /\ inflight' = Resume(r)
    /\ out' = Out(IF ok THEN Resp("send", r.acct, 200, "Message sent")
                  ELSE Resp("send", r.acct, 500, "Failed to send"), <<>>)
    /\ UNCHANGED <<cap, impl, running, sessions, qrCodes, connectionStatus, transports, startingBg,
                   timers, renders, authFiles>>

\* process.on('unhandledRejection') / process.on('uncaughtException'): two of
\* the servers register them, and both listeners only log
HasCatchAll == impl \in {"wwebjs", "baileys"}

\* a rejection that nothing handles, in a server without the listeners: Node 18
\* (FROM node:18-slim) raises it as an uncaught exception and the process
\* exits with code 1.  Its Maps, sockets, timers and suspended handlers end
\* with it; the credential directories stay on disk
ProcessExit ==
    /\ running' = FALSE
    /\ sessions' = EmptyMap
    /\ qrCodes' = EmptyMap
    /\ connectionStatus' = EmptyMap
    /\ transports' = <<>>
    /\ inflight' = EmptyBag
    /\ startingBg' = [a \in Accounts |-> 0]
    /\ timers' = [a \in Accounts |-> 0]
    /\ renders' = {}
    /\ out' = Out(Resp("exit", "", 1, "unhandled rejection"), <<>>)
    /\ UNCHANGED <<cap, impl, authFiles>>

--------------------------------------------------------------------------
(* Baileys servers: src/unnamed/part_000:284-718 and src/server.js:481-767 *)

\* startSession after its two awaits: makeWASocket, sessions.set(clientId, sock)
B_MakeSocket(a) ==
    /\ Cardinality(TransportsOf(a)) < cap.transports
    /\ transports' = Append(transports, NewTransport(a))
    /\ sessions' = MapSet(sessions, a, Len(transports) + 1)
    /\ authFiles' = authFiles \cup {a}

\* POST /api/whatsapp/connect up to `await startSession(clientId)`
B_Connect(a) ==
    /\ running
    /\ IsBaileys
    /\ IF a = Missing
       THEN /\ out' = Out(RespMissing, <<>>)
            /\ UNCHANGED inflight
       ELSE IF MapHas(sessions, a) /\ MapHas(connectionStatus, a)
                  /\ connectionStatus[a].connected
       THEN /\ out' = Out(RespConnected(a, connectionStatus[a].phone), <<>>)
            /\ UNCHANGED inflight
       ELSE /\ CanSuspend
            /\ inflight' = Suspend(Suspended("connect", a, "startSession", 0, TRUE))
            /\ out' = Silent
    /\ UNCHANGED <<cap, impl, running, sessions, qrCodes, connectionStatus, transports, startingBg,
                   timers, renders, authFiles>>

\* the connect request's startSession resumes, registers the socket and responds
B_ConnectResume(r) ==
    /\ running
    /\ IsBaileys
    /\ r \in BagToSet(inflight)
    /\ r.kind = "connect"
    /\ B_MakeSocket(r.acct)
    /\ inflight' = Resume(r)
    /\ out' = Out(Resp("connect", r.acct, 200, "Connecting..."), <<>>)
    /\ UNCHANGED <<cap, impl, running, qrCodes, connectionStatus, startingBg, timers, renders>>

\* a startSession started by the reconnect logic resumes and registers the socket
B_StartSessionResume(a) ==
    /\ running
    /\ IsBaileys
    /\ startingBg[a] > 0
    /\ B_MakeSocket(a)
    /\ startingBg' = [startingBg EXCEPT ![a] = @ - 1]
    /\ out' = Silent
    /\ UNCHANGED <<cap, impl, running, qrCodes, connectionStatus, inflight, timers, renders>>

\* a startSession started by initSessions or by the reconnect logic rejects in
\* one of its awaits (useMultiFileAuthState cannot use the directory).  The call
\* of initSessions has a .catch that logs; the calls of the retry timer and of
\* the close handler have none, so the rejection goes to the process
B_StartSessionFail(a) ==
    /\ running
    /\ IsBaileys
    /\ startingBg[a] > 0
    /\ IF HasCatchAll
       THEN /\ startingBg' = [startingBg EXCEPT ![a] = @ - 1]
            /\ out' = Out(Resp("log", a, 0, "startSession rejected"), <<>>)
            /\ UNCHANGED <<cap, impl, running, sessions, qrCodes, connectionStatus,
                           transports, inflight, timers, renders, authFiles>>
       ELSE ProcessExit

\* connection.update { connection: 'open' }
B_OnOpen(t, p) ==
    /\ running
    /\ IsBaileys
    /\ transports[t].st = "connecting"
    /\ LET a == transports[t].acct
           phone == SplitColon0(UserId(p)) IN
       /\ transports' = [transports EXCEPT ![t].st = "open", ![t].info = p]
       /\ qrCodes' = MapDelete(qrCodes, a)
       /\ connectionStatus' = MapSet(connectionStatus, a, StatusConnected(phone))
       /\ out' = Out(NoResp, <<Notification(a, "connected", phone)>>)
    /\ UNCHANGED <<cap, impl, running, sessions, inflight, startingBg, timers, renders, authFiles>>

\* the reconnect branch of the close handler
B_ScheduleReconnect(a) ==
    IF impl = "baileys"
    THEN /\ timers' = [timers EXCEPT ![a] = @ + 1]
         /\ UNCHANGED startingBg
    ELSE /\ startingBg' = [startingBg EXCEPT ![a] = @ + 1]
         /\ UNCHANGED timers

\* connection.update { connection: 'close' }: what the handler does to the tables
B_CloseHandler(a, loggedOut) ==
    /\ qrCodes' = MapDelete(qrCodes, a)
    /\ connectionStatus' = MapSet(connectionStatus, a, StatusDisconnected)
    /\ IF ~loggedOut
       THEN B_ScheduleReconnect(a) /\ UNCHANGED authFiles
       ELSE /\ authFiles' = authFiles \ {a}
            /\ UNCHANGED <<timers, startingBg>>

\* connection.update { connection: 'close' } emitted by the transport on its own
B_OnClose(t, loggedOut) ==
    /\ running
    /\ IsBaileys
    /\ Live(t)
    /\ LET a == transports[t].acct IN
       /\ transports' = [transports EXCEPT ![t].st = "closed"]
       /\ B_CloseHandler(a, loggedOut)
       /\ sessions' = IF loggedOut THEN MapDelete(sessions, a) ELSE sessions
       /\ out' = Out(NoResp, IF loggedOut THEN <<Notification(a, "disconnected", "null")>>
                             ELSE <<>>)
    /\ UNCHANGED <<cap, impl, running, inflight, renders>>

\* the reconnect timer expires and runs its callback () => startSession(clientId),
\* which suspends in its first await
B_RetryFire(a) ==
    /\ running
    /\ IsBaileys
    /\ timers[a] > 0
    /\ timers' = [timers EXCEPT ![a] = @ - 1]
    /\ startingBg' = [startingBg EXCEPT ![a] = @ + 1]
    /\ out' = Silent
    /\ UNCHANGED <<cap, impl, running, sessions, qrCodes, connectionStatus, transports, inflight,
                   renders, authFiles>>

\* POST /api/whatsapp/send up to `await sock.sendMessage(...)`
B_Send(a) ==
    /\ running
    /\ IsBaileys
    /\ IF ~MapHas(sessions, a)
       THEN /\ out' = Out(Resp("send", a, 400, "WhatsApp not connected"), <<>>)
            /\ UNCHANGED inflight
       ELSE /\ CanSuspend
            /\ inflight' = Suspend(Suspended("send", a, "sendMessage", sessions[a], TRUE))
            /\ out' = Silent
    /\ UNCHANGED <<cap, impl, running, sessions, qrCodes, connectionStatus, transports, startingBg,
                   timers, renders, authFiles>>

\* B_Disconnect as it would be if an account without a socket were answered 400
\* 'Not connected', as the send route answers it
B_Disconnect_RequiresSocket(a) ==
    /\ running
    /\ IsBaileys
    /\ IF MapHas(sessions, a)
       THEN /\ CanSuspend
            /\ inflight' = Suspend(Suspended("disconnect", a, "logout", sessions[a], TRUE))
            /\ out' = Silent
       ELSE /\ out' = Out(Resp("disconnect", a, 400, "Not connected"), <<>>)
            /\ UNCHANGED inflight
    /\ UNCHANGED <<cap, impl, running, sessions, qrCodes, connectionStatus, transports,
                   startingBg, timers, renders, authFiles>>

\* POST /api/whatsapp/disconnect up to `await sock.logout()`
B_Disconnect(a) ==
    /\ running
    /\ IsBaileys
    /\ IF MapHas(sessions, a)
       THEN /\ CanSuspend
            /\ inflight' = Suspend(Suspended("disconnect", a, "logout", sessions[a], TRUE))
            /\ out' = Silent
       ELSE /\ out' = Out(Resp("disconnect", a, 200, "success"),
                          <<Notification(a, "disconnected", "null")>>)
            /\ inflight' = Overtake(inflight, a)
    /\ UNCHANGED <<cap, impl, running, sessions, qrCodes, connectionStatus, transports, startingBg,
                   timers, renders, authFiles>>

\* sock.logout() resolves.  Baileys' logout ends the socket, which emits
\* connection.update close(loggedOut) before the promise resolves; then the
\* route runs sessions.delete, notifyPhpBackend, res.json
B_LogoutOk(r) ==
    /\ running
    /\ IsBaileys
    /\ r \in BagToSet(inflight)
    /\ r.kind = "disconnect"
    /\ LET a == r.acct
           t == r.sock
           note == Notification(a, "disconnected", "null") IN
       /\ IF Live(t)
          THEN /\ transports' = [transports EXCEPT ![t].st = "closed"]
               /\ B_CloseHandler(a, TRUE)
          ELSE UNCHANGED <<transports, qrCodes, connectionStatus, authFiles,
                           timers, startingBg>>
       /\ sessions' = MapDelete(sessions, a)
       /\ out' = Out(Resp("disconnect", a, 200, "success"),
                     IF Live(t) THEN <<note, note>> ELSE <<note>>)
    /\ inflight' = Overtake(Resume(r), r.acct)
    /\ UNCHANGED <<cap, impl, running, renders>>

\* sock.logout() rejects: the route's catch answers 500
B_LogoutFail(r) ==
    /\ running
    /\ IsBaileys
    /\ r \in BagToSet(inflight)
    /\ r.kind = "disconnect"
    /\ inflight' = Resume(r)
    /\ out' = Out(Resp("disconnect", r.acct, 500, "Failed to disconnect"), <<>>)
    /\ UNCHANGED <<cap, impl, running, sessions, qrCodes, connectionStatus, transports, startingBg,
                   timers, renders, authFiles>>

NextBaileys ==
    \/ \E a \in cap.accounts \cup {Missing} : B_Connect(a)
    \/ \E r \in BagToSet(inflight) : B_ConnectResume(r)
    \/ \E a \in cap.accounts : B_StartSessionResume(a)
    \/ \E a \in cap.accounts : B_StartSessionFail(a)
    \/ \E t \in Emitting, p \in Phones : B_OnOpen(t, p)
    \/ \E t \in Emitting, lo \in BOOLEAN : B_OnClose(t, lo)
    \/ \E a \in cap.accounts : B_RetryFire(a)
    \/ \E a \in cap.accounts : B_Send(a)
    \/ \E a \in cap.accounts : B_Disconnect(a)
    \/ \E r \in BagToSet(inflight) : B_LogoutOk(r)
    \/ \E r \in BagToSet(inflight) : B_LogoutFail(r)

--------------------------------------------------------------------------
(* whatsapp-web.js server: src/server.js:1-479 *)

\* the end of cleanup: the three tables, then the session directory
\* (fs.existsSync / fs.rmSync, whose failure is caught and logged)
W_CleanupTables(a, rmOk) ==
    /\ sessions' = MapDelete(sessions, a)
    /\ qrCodes' = MapDelete(qrCodes, a)
    /\ connectionStatus' = MapSet(connectionStatus, a, StatusDisconnected)
    /\ authFiles' = IF rmOk THEN authFiles \ {a} ELSE authFiles

\* cleanup(accountId) up to its first await.  ts is the transport table as the
\* caller leaves it; with no client in the registry cleanup runs to its end.
W_CleanupStart(a, route, terminal, ts, rmOk) ==
    IF MapHas(sessions, a)
    THEN /\ CanSuspend
         /\ inflight' = Suspend([Suspended("cleanup", a, "logout", sessions[a], route)
                                    EXCEPT !.terminal = terminal])
         /\ transports' = [ts EXCEPT ![sessions[a]].logouts = @ + cap.count]
         /\ UNCHANGED <<sessions, qrCodes, connectionStatus, authFiles>>
    ELSE /\ W_CleanupTables(a, rmOk)
         /\ transports' = ts
         /\ UNCHANGED inflight

\* W_Connect as it would be without the `if (!account_id)` check of lines 70-72
W_Connect_NoIdCheck(a) ==
    /\ running
    /\ IsWweb
    /\ IF MapHas(sessions, a) /\ transports[sessions[a]].info # "null"
       THEN /\ out' = Out(RespConnected(a, transports[sessions[a]].info), <<>>)
            /\ UNCHANGED <<sessions, connectionStatus, transports, authFiles>>
       ELSE /\ Cardinality(TransportsOf(a)) < cap.transports
            /\ transports' = Append(transports, NewTransport(a))
            /\ sessions' = MapSet(sessions, a, Len(transports) + 1)
            /\ connectionStatus' = MapSet(connectionStatus, a, StatusDisconnected)
            /\ authFiles' = authFiles \cup {a}
            /\ out' = Out(Resp("connect", a, 200, "Connecting..."), <<>>)
    /\ UNCHANGED <<cap, impl, running, qrCodes, inflight, startingBg, timers, renders>>

\* POST /api/whatsapp/connect (no await before res.json)
W_Connect(a) ==
    /\ running
    /\ IsWweb
    /\ IF a = Missing
       THEN /\ out' = Out(RespMissing, <<>>)
            /\ UNCHANGED <<sessions, connectionStatus, transports, authFiles>>
       ELSE IF MapHas(sessions, a) /\ transports[sessions[a]].info # "null"
       THEN /\ out' = Out(RespConnected(a, transports[sessions[a]].info), <<>>)
            /\ UNCHANGED <<sessions, connectionStatus, transports, authFiles>>
       ELSE /\ Cardinality(TransportsOf(a)) < cap.transports
            /\ transports' = Append(transports, NewTransport(a))
            /\ sessions' = MapSet(sessions, a, Len(transports) + 1)
            /\ connectionStatus' = MapSet(connectionStatus, a, StatusDisconnected)
            /\ authFiles' = authFiles \cup {a}
            /\ out' = Out(Resp("connect", a, 200, "Connecting..."), <<>>)
    /\ UNCHANGED <<cap, impl, running, qrCodes, inflight, startingBg, timers, renders>>

\* client.on('authenticated'); the handler looks at no state, so the event is
\* taken whenever the client emits it, during the handshake or after 'ready'
W_OnAuthenticated(t) ==
    /\ running
    /\ IsWweb
    /\ Live(t)
    /\ LET a == transports[t].acct
           current == IF MapHas(connectionStatus, a) THEN connectionStatus[a]
                      ELSE StatusDisconnected IN
       connectionStatus' = MapSet(connectionStatus, a, [current EXCEPT !.authenticating = TRUE])
    /\ out' = Silent
    /\ UNCHANGED <<cap, impl, running, sessions, qrCodes, transports, inflight, startingBg,
                   timers, renders, authFiles>>

\* client.on('ready'); the library has set client.info
W_OnReady(t, p) ==
    /\ running
    /\ IsWweb
    /\ transports[t].st = "connecting"
    /\ transports[t].info \in {"null", p}
    /\ LET a == transports[t].acct IN
       /\ transports' = [transports EXCEPT ![t].st = "open", ![t].info = p]
       /\ qrCodes' = MapDelete(qrCodes, a)
       /\ connectionStatus' = MapSet(connectionStatus, a, StatusConnected(p))
       /\ out' = Out(NoResp, <<Notification(a, "connected", p)>>)
    /\ UNCHANGED <<cap, impl, running, sessions, inflight, startingBg, timers, renders, authFiles>>

\* client.on('auth_failure'): cleanup(clientId), not awaited
W_OnAuthFailure(t, rmOk) ==
    /\ running
    /\ IsWweb
    /\ transports[t].st = "connecting"
    /\ W_CleanupStart(transports[t].acct, FALSE, TRUE,
                      [transports EXCEPT ![t].st = "closed"], rmOk)
    /\ out' = Silent
    /\ UNCHANGED <<cap, impl, running, startingBg, timers, renders>>

\* client.on('disconnected', (reason) => ...): the reason (logout or another
\* one: navigation, conflict) is logged; cleanup(clientId), not awaited, then
\* notifyPhpBackend
W_OnDisconnected(t, logout, rmOk) ==
    /\ running
    /\ IsWweb
    /\ transports[t].st = "open"
    /\ W_CleanupStart(transports[t].acct, FALSE, logout,
                      [transports EXCEPT ![t].st = "closed", ![t].notes = @ + cap.count], rmOk)
    /\ out' = Out(NoResp, <<Notification(transports[t].acct, "disconnected", "null")>>)
    /\ UNCHANGED <<cap, impl, running, startingBg, timers, renders>>

\* POST /api/whatsapp/disconnect up to the first await of `await cleanup(clientId)`;
\* with no client in the registry it runs to res.json
W_Disconnect(a, rmOk) ==
    /\ running
    /\ IsWweb
    /\ W_CleanupStart(a, TRUE, TRUE, transports, rmOk)
    /\ out' = IF MapHas(sessions, a) THEN Silent
              ELSE Out(Resp("disconnect", a, 200, "success"),
                       <<Notification(a, "disconnected", "null")>>)
    /\ UNCHANGED <<cap, impl, running, startingBg, timers, renders>>

\* cleanup: client.logout() settles (a rejection is caught); the 3000 ms wait begins
W_LogoutReturn(r, ok) ==
    /\ running
    /\ IsWweb
    /\ r \in BagToSet(inflight)
    /\ r.kind = "cleanup" /\ r.pc = "logout"
    /\ inflight' = Move(r, "settle1")
    /\ transports' = IF ok /\ Live(r.sock)
                     THEN [transports EXCEPT ![r.sock].st = "closed"]
                     ELSE transports
    /\ out' = Silent
    /\ UNCHANGED <<cap, impl, running, sessions, qrCodes, connectionStatus, startingBg, timers,
                   renders, authFiles>>

\* cleanup: the 3000 ms wait ends, client.destroy() is called
W_Settle1(r) ==
    /\ running
    /\ IsWweb
    /\ r \in BagToSet(inflight)
    /\ r.kind = "cleanup" /\ r.pc = "settle1"
    /\ inflight' = Move(r, "destroy")
    /\ transports' = [transports EXCEPT ![r.sock].destroys = @ + cap.count]
    /\ out' = Silent
    /\ UNCHANGED <<cap, impl, running, sessions, qrCodes, connectionStatus, startingBg, timers,
                   renders, authFiles>>

\* cleanup: client.destroy() settles (a rejection is caught); the 2500 ms wait begins
W_DestroyReturn(r, ok) ==
    /\ running
    /\ IsWweb
    /\ r \in BagToSet(inflight)
    /\ r.kind = "cleanup" /\ r.pc = "destroy"
    /\ inflight' = Move(r, "settle2")
    /\ transports' = IF ok THEN [transports EXCEPT ![r.sock].st = "destroyed"]
                     ELSE transports
    /\ out' = Silent
    /\ UNCHANGED <<cap, impl, running, sessions, qrCodes, connectionStatus, startingBg, timers,
                   renders, authFiles>>

\* cleanup: the 2500 ms wait ends; the tables and the session directory; a
\* disconnect route awaiting this cleanup then notifies and responds
W_Settle2(r, rmOk) ==
    /\ running
    /\ IsWweb
    /\ r \in BagToSet(inflight)
    /\ r.kind = "cleanup" /\ r.pc = "settle2"
    /\ inflight' = Resume(r)
    /\ W_CleanupTables(r.acct, rmOk)
    /\ out' = IF r.route
              THEN Out(Resp("disconnect", r.acct, 200, "success"),
                       <<Notification(r.acct, "disconnected", "null")>>)
              ELSE Silent
    /\ transports' = IF r.route THEN [transports EXCEPT ![r.sock].notes = @ + cap.count]
                     ELSE transports
    /\ UNCHANGED <<cap, impl, running, startingBg, timers, renders>>

\* POST /api/whatsapp/send up to `await client.sendMessage(...)`
W_Send(a) ==
    /\ running
    /\ IsWweb
    /\ IF ~MapHas(sessions, a) \/ transports[sessions[a]].info = "null"
       THEN /\ out' = Out(Resp("send", a, 400, "WhatsApp not connected"), <<>>)
            /\ UNCHANGED inflight
       ELSE /\ CanSuspend
            /\ inflight' = Suspend(Suspended("send", a, "sendMessage", sessions[a], TRUE))
            /\ out' = Silent
    /\ UNCHANGED <<cap, impl, running, sessions, qrCodes, connectionStatus, transports, startingBg,
                   timers, renders, authFiles>>

\* `while (attempts < 3)` of GET /api/whatsapp/groups
MaxAttempts == 3
\* what client.getChats() settles with: the chats, a transient rejection
\* ("Evaluation failed"), or a rejection whose message includes 'Session closed'
ChatsResults == {"chats", "Evaluation failed", "Session closed"}
RespGroupsFailed(a) == Resp("groups", a, 500, "Failed to fetch groups")

\* the inner catch after a failed try: a 'Session closed' error is rethrown;
\* otherwise attempts++, and the error is rethrown at the third attempt, else
\* the handler waits 1000 ms.  A rethrown error reaches the route's catch (500)
W_GroupsCatch(r, message) ==
    IF message = "Session closed" \/ r.attempts + 1 >= MaxAttempts
    THEN /\ inflight' = Resume(r)
         /\ out' = Out(RespGroupsFailed(r.acct), <<>>)
    ELSE /\ inflight' = (inflight (-) SetToBag({r}))
                           (+) SetToBag({[r EXCEPT !.pc = "wait", !.attempts = @ + 1]})
         /\ out' = Silent

\* GET /api/whatsapp/groups up to the first `await client.getChats()`
W_Groups(a) ==
    /\ running
    /\ IsWweb
    /\ IF ~MapHas(sessions, a) \/ transports[sessions[a]].info = "null"
       THEN /\ out' = Out(Resp("groups", a, 400, "WhatsApp not connected"), <<>>)
            /\ UNCHANGED inflight
       ELSE /\ CanSuspend
            /\ inflight' = Suspend([Suspended("groups", a, "getChats", sessions[a], TRUE)
                                       EXCEPT !.calls = 1])
            /\ out' = Silent
    /\ UNCHANGED <<cap, impl, running, sessions, qrCodes, connectionStatus, transports, startingBg,
                   timers, renders, authFiles>>

\* client.getChats() settles: res.json with the groups, or the inner catch
W_GetChatsReturn(r, result) ==
    /\ running
    /\ IsWweb
    /\ r \in BagToSet(inflight)
    /\ r.kind = "groups" /\ r.pc = "getChats"
    /\ IF result = "chats"
       THEN /\ inflight' = Resume(r)
            /\ out' = Out(Resp("groups", r.acct, 200, "groups"), <<>>)
       ELSE W_GroupsCatch(r, result)
    /\ UNCHANGED <<cap, impl, running, sessions, qrCodes, connectionStatus, transports, startingBg,
                   timers, renders, authFiles>>

\* the 1000 ms wait ends and the loop starts over: without the account in
\* whatsappClients the try throws 'Client disconnected' into the inner catch;
\* otherwise getChats is invoked again on the client the request holds
W_GroupsWaitDone(r) ==
    /\ running
    /\ IsWweb
    /\ r \in BagToSet(inflight)
    /\ r.kind = "groups" /\ r.pc = "wait"
    /\ IF ~MapHas(sessions, r.acct)
       THEN W_GroupsCatch(r, "Client disconnected")
       ELSE /\ inflight' = (inflight (-) SetToBag({r}))
                              (+) SetToBag({[r EXCEPT !.pc = "getChats", !.calls = @ + 1]})
            /\ out' = Silent
    /\ UNCHANGED <<cap, impl, running, sessions, qrCodes, connectionStatus, transports, startingBg,
                   timers, renders, authFiles>>

NextWweb ==
    \/ \E a \in cap.accounts : W_Groups(a)
    \/ \E r \in BagToSet(inflight), result \in ChatsResults : W_GetChatsReturn(r, result)
    \/ \E r \in BagToSet(inflight) : W_GroupsWaitDone(r)
    \/ \E a \in cap.accounts \cup {Missing} : W_Connect(a)
    \/ \E t \in Emitting : W_OnAuthenticated(t)
    \/ \E t \in Emitting, p \in Phones : W_OnReady(t, p)
    \/ \E t \in Emitting, rmOk \in BOOLEAN : W_OnAuthFailure(t, rmOk)
    \/ \E t \in Emitting, logout, rmOk \in BOOLEAN : W_OnDisconnected(t, logout, rmOk)
    \/ \E a \in cap.accounts, rmOk \in BOOLEAN : W_Disconnect(a, rmOk)
    \/ \E r \in BagToSet(inflight), ok \in BOOLEAN : W_LogoutReturn(r, ok)
    \/ \E r \in BagToSet(inflight) : W_Settle1(r)
    \/ \E r \in BagToSet(inflight), ok \in BOOLEAN : W_DestroyReturn(r, ok)
    \/ \E r \in BagToSet(inflight), rmOk \in BOOLEAN : W_Settle2(r, rmOk)
    \/ \E a \in cap.accounts : W_Send(a)

--------------------------------------------------------------------------
(* older whatsapp-web.js server: src/unnamed/part_000:1-282 *)

\* POST /api/whatsapp/connect (no await before res.json)
O_Connect(a) ==
    /\ running
    /\ IsOld
    /\ IF a = Missing
       THEN /\ out' = Out(RespMissing, <<>>)
            /\ UNCHANGED <<sessions, connectionStatus, transports, authFiles>>
       ELSE IF MapHas(sessions, a) /\ transports[sessions[a]].info # "null"
       THEN /\ out' = Out(RespConnected(a, transports[sessions[a]].info), <<>>)
            /\ UNCHANGED <<sessions, connectionStatus, transports, authFiles>>
       ELSE /\ Cardinality(TransportsOf(a)) < cap.transports
            /\ transports' = Append(transports, NewTransport(a))
            /\ sessions' = MapSet(sessions, a, Len(transports) + 1)
            /\ connectionStatus' = MapSet(connectionStatus, a, StatusDisconnected)
            /\ authFiles' = authFiles \cup {a}
            /\ out' = Out(Resp("connect", a, 200, "Connecting..."), <<>>)
    /\ UNCHANGED <<cap, impl, running, qrCodes, inflight, startingBg, timers, renders>>

\* client.on('authenticated'): console.log only
O_OnAuthenticated(t) ==
    /\ running
    /\ IsOld
    /\ Live(t)
    /\ out' = Silent
    /\ UNCHANGED <<cap, impl, running, sessions, qrCodes, connectionStatus, transports, inflight,
                   startingBg, timers, renders, authFiles>>

\* client.on('ready'); the library has set client.info
O_OnReady(t, p) ==
    /\ running
    /\ IsOld
    /\ transports[t].st = "connecting"
    /\ transports[t].info \in {"null", p}
    /\ transports' = [transports EXCEPT ![t].st = "open", ![t].info = p]
    /\ qrCodes' = MapDelete(qrCodes, transports[t].acct)
    /\ connectionStatus' = MapSet(connectionStatus, transports[t].acct, StatusConnected(p))
    /\ out' = Silent
    /\ UNCHANGED <<cap, impl, running, sessions, inflight, startingBg, timers, renders, authFiles>>

\* cleanup(accountId) up to `await client.destroy()`, called with b the handlers
\* suspended and ts the transport table as the caller leaves them; with no
\* client in the registry cleanup runs to its end
O_CleanupStart(a, route, terminal, b, ts, rmOk) ==
    IF MapHas(sessions, a)
    THEN /\ inflight' = b (+) SetToBag({[Suspended("cleanup", a, "destroy", sessions[a], route)
                                            EXCEPT !.terminal = terminal]})
         /\ transports' = [ts EXCEPT ![sessions[a]].destroys = @ + cap.count]
         /\ UNCHANGED <<sessions, qrCodes, connectionStatus, authFiles>>
    ELSE /\ W_CleanupTables(a, rmOk)
         /\ transports' = ts
         /\ inflight' = b

\* client.on('auth_failure') and client.on('disconnected'): cleanup(account_id),
\* not awaited; terminal is FALSE for a 'disconnected' whose reason is not logout
O_OnTerminal(t, terminal, rmOk) ==
    /\ running
    /\ IsOld
    /\ Live(t)
    /\ MapHas(sessions, transports[t].acct) => CanSuspend
    /\ O_CleanupStart(transports[t].acct, FALSE, terminal, inflight,
                      [transports EXCEPT ![t].st = "closed"], rmOk)
    /\ out' = Silent
    /\ UNCHANGED <<cap, impl, running, startingBg, timers, renders>>

\* POST /api/whatsapp/disconnect up to `await client.logout()`, which no
\* try/catch of its own guards; with no client, `await cleanup(account_id)` runs
\* to its end and the route answers.  (The logouts counter of a transport records
\* the logouts that cleanup performs; this route's own call can repeat without bound.)
O_Disconnect(a, rmOk) ==
    /\ running
    /\ IsOld
    /\ IF MapHas(sessions, a)
       THEN /\ CanSuspend
            /\ inflight' = Suspend(Suspended("disconnect", a, "logout", sessions[a], TRUE))
            /\ out' = Silent
            /\ UNCHANGED <<sessions, qrCodes, connectionStatus, transports, authFiles>>
       ELSE /\ W_CleanupTables(a, rmOk)
            /\ out' = Out(Resp("disconnect", a, 200, "success"), <<>>)
            /\ UNCHANGED <<transports, inflight>>
    /\ UNCHANGED <<cap, impl, running, startingBg, timers, renders>>

\* client.logout() settles: a rejection goes to the route's catch (500) and
\* cleanup is not called; otherwise `await cleanup(account_id)` begins
O_LogoutReturn(r, ok, rmOk) ==
    /\ running
    /\ IsOld
    /\ r \in BagToSet(inflight)
    /\ r.kind = "disconnect" /\ r.pc = "logout"
    /\ IF ok
       THEN /\ O_CleanupStart(r.acct, TRUE, TRUE, Resume(r),
                              IF Live(r.sock) THEN [transports EXCEPT ![r.sock].st = "closed"]
                              ELSE transports, rmOk)
            /\ out' = IF MapHas(sessions, r.acct) THEN Silent
                      ELSE Out(Resp("disconnect", r.acct, 200, "success"), <<>>)
       ELSE /\ inflight' = Resume(r)
            /\ out' = Out(Resp("disconnect", r.acct, 500, "Failed to disconnect"), <<>>)
            /\ UNCHANGED <<sessions, qrCodes, connectionStatus, transports, authFiles>>
    /\ UNCHANGED <<cap, impl, running, startingBg, timers, renders>>

\* cleanup: client.destroy() settles (a rejection is caught); the tables and the
\* session directory; a disconnect route awaiting this cleanup then responds
O_DestroyReturn(r, ok, rmOk) ==
    /\ running
    /\ IsOld
    /\ r \in BagToSet(inflight)
    /\ r.kind = "cleanup" /\ r.pc = "destroy"
    /\ inflight' = Resume(r)
    /\ transports' = IF ok THEN [transports EXCEPT ![r.sock].st = "destroyed"]
                     ELSE transports
    /\ W_CleanupTables(r.acct, rmOk)
    /\ out' = IF r.route THEN Out(Resp("disconnect", r.acct, 200, "success"), <<>>)
              ELSE Silent
    /\ UNCHANGED <<cap, impl, running, startingBg, timers, renders>>

\* POST /api/whatsapp/send up to `await client.sendMessage(...)`
O_Send(a) ==
    /\ running
    /\ IsOld
    /\ IF ~MapHas(sessions, a) \/ transports[sessions[a]].info = "null"
       THEN /\ out' = Out(Resp("send", a, 400, "WhatsApp not connected"), <<>>)
            /\ UNCHANGED inflight
       ELSE /\ CanSuspend
            /\ inflight' = Suspend(Suspended("send", a, "sendMessage", sessions[a], TRUE))
            /\ out' = Silent
    /\ UNCHANGED <<cap, impl, running, sessions, qrCodes, connectionStatus, transports, startingBg,
                   timers, renders, authFiles>>

\* GET /api/whatsapp/status, lines 119-136: the client.info fallback
O_Fallback(a) ==
    /\ MapHas(sessions, a)
    /\ ~(IF MapHas(connectionStatus, a) THEN connectionStatus[a].connected ELSE FALSE)
    /\ transports[sessions[a]].info # "null"
\* the qr, connected and phone the route holds when it reaches line 139
O_StatusBody(a) ==
    LET status == IF MapHas(connectionStatus, a) THEN connectionStatus[a]
                  ELSE StatusDisconnected
    IN [qr |-> IF MapHas(qrCodes, a) THEN qrCodes[a] ELSE NullQr,
        connected |-> status.connected \/ O_Fallback(a),
        phone |-> IF O_Fallback(a) THEN transports[sessions[a]].info ELSE status.phone]
\* lines 139-141: `qr = null` assigns to the `const qr` of line 119, a TypeError
O_StatusThrows(a) == O_StatusBody(a).connected

\* GET /api/whatsapp/status: the fallback writes the tables; when connected the
\* TypeError goes to the route's catch (500)
O_Status(a) ==
    /\ running
    /\ IsOld
    /\ connectionStatus' = IF O_Fallback(a)
                           THEN MapSet(connectionStatus, a, StatusConnected(O_StatusBody(a).phone))
                           ELSE connectionStatus
    /\ qrCodes' = IF O_Fallback(a) THEN MapDelete(qrCodes, a) ELSE qrCodes
    /\ out' = IF O_StatusThrows(a)
              THEN Out(Resp("status", a, 500, "Failed to get status"), <<>>)
              ELSE Out(StatusResp(a, O_StatusBody(a)), <<>>)
    /\ UNCHANGED <<cap, impl, running, sessions, transports, inflight, startingBg, timers,
                   renders, authFiles>>

\* what GET /api/whatsapp/status answers in this state
StatusAnswer(a) ==
    IF IsOld
    THEN IF O_StatusThrows(a) THEN Resp("status", a, 500, "Failed to get status")
         ELSE StatusResp(a, O_StatusBody(a))
    ELSE StatusResp(a, Status(a))

NextOld ==
    \/ \E a \in cap.accounts \cup {Missing} : O_Connect(a)
    \/ \E t \in Emitting : O_OnAuthenticated(t)
    \/ \E t \in Emitting, p \in Phones : O_OnReady(t, p)
    \/ \E t \in Emitting, terminal, rmOk \in BOOLEAN : O_OnTerminal(t, terminal, rmOk)
    \/ \E a \in cap.accounts, rmOk \in BOOLEAN : O_Disconnect(a, rmOk)
    \/ \E r \in BagToSet(inflight), ok, rmOk \in BOOLEAN : O_LogoutReturn(r, ok, rmOk)
    \/ \E r \in BagToSet(inflight), ok, rmOk \in BOOLEAN : O_DestroyReturn(r, ok, rmOk)
    \/ \E a \in cap.accounts : O_Send(a)
    \/ \E a \in cap.accounts : O_Status(a)

\* GetStatus as it would be if the route stored the default record it falls
\* back to when the account has none
GetStatus_StoresDefault(a) ==
    /\ running
    /\ ~IsOld
    /\ out' = Out(StatusAnswer(a), <<>>)
    /\ connectionStatus' = IF MapHas(connectionStatus, a) THEN connectionStatus
                           ELSE MapSet(connectionStatus, a, StatusDisconnected)
    /\ UNCHANGED <<cap, impl, running, sessions, qrCodes, transports, inflight,
                   startingBg, timers, renders, authFiles>>

\* GET /api/whatsapp/status of the other servers: reads the tables, writes nothing
GetStatus(a) ==
    /\ running
    /\ ~IsOld
    /\ out' = Out(StatusAnswer(a), <<>>)
    /\ UNCHANGED <<cap, impl, running, sessions, qrCodes, connectionStatus, transports, inflight,
                   startingBg, timers, renders, authFiles>>

\* NotifyReturn as it would be if a failed notification were fired again
NotifyReturn_Retries(ok) ==
    /\ running
    /\ out.notes # <<>>
    /\ out' = IF ok
              THEN Out(Resp("log", Head(out.notes).acct, 0, "Notified PHP backend"),
                       Tail(out.notes))
              ELSE Out(Resp("log", Head(out.notes).acct, 0, "Failed to notify PHP backend"),
                       out.notes)
    /\ UNCHANGED <<cap, impl, running, sessions, qrCodes, connectionStatus, transports, inflight,
                   startingBg, timers, renders, authFiles>>

\* notifyPhpBackend after `await fetch(...)`: the POST of a notification just
\* fired settles; the function only logs, on success and in its catch, and no
\* caller awaits it
NotifyReturn(ok) ==
    /\ running
    /\ out.notes # <<>>
    /\ out' = Out(Resp("log", Head(out.notes).acct, 0,
                       IF ok THEN "Notified PHP backend"
                       ELSE "Failed to notify PHP backend"),
                  Tail(out.notes))
    /\ UNCHANGED <<cap, impl, running, sessions, qrCodes, connectionStatus, transports, inflight,
                   startingBg, timers, renders, authFiles>>

\* whatsapp-web.js assigns client.info when the session has synced and emits
\* 'ready' afterwards; the routes read client.info directly ("Double check client
\* info", "check client.info as a fallback"), so they can see it before 'ready'
ClientInfoSet(t, p) ==
    /\ running
    /\ IsWweb \/ IsOld
    /\ transports[t].st = "connecting"
    /\ transports[t].info = "null"
    /\ transports' = [transports EXCEPT ![t].info = p]
    /\ out' = Silent
    /\ UNCHANGED <<cap, impl, running, sessions, qrCodes, connectionStatus, inflight, startingBg,
                   timers, renders, authFiles>>

\* client.initialize(), which connect calls without await and without .catch,
\* rejects (the browser cannot be launched, or its page is lost before the
\* session is up); the client emits nothing further.  With the listeners the
\* rejection is logged or ignored; without them the process ends
InitializeFails(t) ==
    /\ running
    /\ IsWweb \/ IsOld
    /\ transports[t].st = "connecting"
    /\ transports[t].info = "null"
    /\ IF HasCatchAll
       THEN /\ transports' = [transports EXCEPT ![t].st = "closed"]
            /\ out' = Out(Resp("log", transports[t].acct, 0, "Unhandled Rejection"), <<>>)
            /\ UNCHANGED <<cap, impl, running, sessions, qrCodes, connectionStatus,
                           inflight, startingBg, timers, renders, authFiles>>
       ELSE ProcessExit

NextCommon ==
    \/ \E t \in Emitting : InitializeFails(t)
    \/ \E t \in Emitting, p \in Phones : ClientInfoSet(t, p)
    \/ \E ok \in BOOLEAN : NotifyReturn(ok)
    \/ \E a \in cap.accounts : GetStatus(a)
    \/ \E t \in Emitting, q \in cap.qrs : OnQr(t, q)
    \/ \E rd \in renders, ok \in BOOLEAN : RenderDone(rd, ok)
    \/ \E r \in BagToSet(inflight), ok \in BOOLEAN : SendReturn(r, ok)

--------------------------------------------------------------------------
(* POST /api/whatsapp/check-numbers: src/server.js:220-270 (whatsapp-web.js), *)
(* src/unnamed/part_000:575-597 and src/server.js:672-693 (Baileys)           *)

\* a number of the request is a string, here the sequence of its characters
Digits == {"0", "1", "2", "3", "4", "5", "6", "7", "8", "9"}
\* number.toString().replace(/\D/g, '')
Clean(number) == SelectSeq(number, LAMBDA c : c \in Digits)
\* the numbers a request may hold: digits only, digits with other characters,
\* no digit at all
NumberInputs == {<<"1", "5">>, <<"+", "1", " ", "5">>, <<"-">>}
MaxNumbers == 3
NumberLists == UNION {[1..n -> NumberInputs] : n \in 0..MaxNumbers}
\* how the existence query of one number settles: registered, not registered,
\* rejected
QueryOutcomes == {"exists", "absent", "fails"}

\* an element of results: { input, valid, formatted } / { input, valid, reason }
Result(number, valid, reason) ==
    [input |-> number, valid |-> valid,
     formatted |-> IF valid THEN Clean(number) ELSE <<>>, reason |-> reason]
RespChecked(a, results) == Resp("check", a, 200, results)

RECURSIVE W_Loop(_, _)
\* the for loop of the whatsapp-web.js route from the head of numbers up to the
\* next `await client.getNumberId(cleanNumber)`: an empty cleanNumber is pushed
\* as { valid: false, reason: 'Empty' }
W_Loop(numbers, results) ==
    IF numbers = <<>> \/ Clean(Head(numbers)) # <<>>
    THEN [numbers |-> numbers, results |-> results]
    ELSE W_Loop(Tail(numbers), Append(results, Result(Head(numbers), FALSE, "Empty")))

RECURSIVE B_Loop(_, _)
\* the for loop of the Baileys route up to the next `await sock.onWhatsApp(clean)`:
\* `if (!clean) continue;`
B_Loop(numbers, results) ==
    IF numbers = <<>> \/ Clean(Head(numbers)) # <<>>
    THEN [numbers |-> numbers, results |-> results]
    ELSE B_Loop(Tail(numbers), results)

\* the loop has stopped at an await (the request r is suspended there) or at
\* its end (res.json({ success: true, results }))
CheckContinue(r, loop, rest) ==
    IF loop.numbers = <<>>
    THEN /\ inflight' = rest
         /\ out' = Out(RespChecked(r.acct, loop.results), <<>>)
    ELSE /\ inflight' = rest (+) SetToBag({[r EXCEPT !.numbers = loop.numbers,
                                                    !.results = loop.results]})
         /\ out' = Silent

\* whatsapp-web.js route up to its first await
W_CheckNumbers(a, numbers) ==
    /\ running
    /\ IsWweb
    /\ IF ~MapHas(sessions, a) \/ transports[sessions[a]].info = "null"
       THEN /\ out' = Out(Resp("check", a, 400, "WhatsApp not connected"), <<>>)
            /\ UNCHANGED inflight
       ELSE /\ CanSuspend
            /\ CheckContinue([Suspended("check", a, "getNumberId", sessions[a], TRUE)
                                 EXCEPT !.asked = numbers],
                             W_Loop(numbers, <<>>), inflight)
    /\ UNCHANGED <<cap, impl, running, sessions, qrCodes, connectionStatus, transports,
                   startingBg, timers, renders, authFiles>>

\* client.getNumberId settles; a rejection is caught inside the loop and pushed
\* as { valid: false, reason: 'Error checking' }
W_GetNumberIdReturn(r, outcome) ==
    /\ running
    /\ IsWweb
    /\ r \in BagToSet(inflight)
    /\ r.kind = "check"
    /\ LET number == Head(r.numbers)
           result == IF outcome = "exists" THEN Result(number, TRUE, "")
                     ELSE IF outcome = "absent" THEN Result(number, FALSE, "Not on WhatsApp")
                     ELSE Result(number, FALSE, "Error checking")
       IN CheckContinue(r, W_Loop(Tail(r.numbers), Append(r.results, result)), Resume(r))
    /\ UNCHANGED <<cap, impl, running, sessions, qrCodes, connectionStatus, transports,
                   startingBg, timers, renders, authFiles>>

\* Baileys route up to its first await
B_CheckNumbers(a, numbers) ==
    /\ running
    /\ IsBaileys
    /\ IF ~MapHas(sessions, a)
       THEN /\ out' = Out(Resp("check", a, 400, "Not connected"), <<>>)
            /\ UNCHANGED inflight
       ELSE /\ CanSuspend
            /\ CheckContinue([Suspended("check", a, "onWhatsApp", sessions[a], TRUE)
                                 EXCEPT !.asked = numbers],
                             B_Loop(numbers, <<>>), inflight)
    /\ UNCHANGED <<cap, impl, running, sessions, qrCodes, connectionStatus, transports,
                   startingBg, timers, renders, authFiles>>

\* sock.onWhatsApp settles; a rejection leaves the loop for the route's catch (500)
B_OnWhatsAppReturn(r, outcome) ==
    /\ running
    /\ IsBaileys
    /\ r \in BagToSet(inflight)
    /\ r.kind = "check"
    /\ IF outcome = "fails"
       THEN /\ inflight' = Resume(r)
            /\ out' = Out(Resp("check", r.acct, 500, "Failed to check"), <<>>)
       ELSE CheckContinue(r, B_Loop(Tail(r.numbers),
                                    Append(r.results,
                                           Result(Head(r.numbers), outcome = "exists", ""))),
                          Resume(r))
    /\ UNCHANGED <<cap, impl, running, sessions, qrCodes, connectionStatus, transports,
                   startingBg, timers, renders, authFiles>>

\* the servers that have the route, with the account connected or unknown
InitCheck ==
    /\ cap = Limit(0, 0, 0, 0, {"q1"})
    /\ impl \in Impls \ {"wwebjs_old"}
    /\ running = TRUE
    /\ \/ /\ transports = <<>>
          /\ sessions = EmptyMap
          /\ connectionStatus = EmptyMap
          /\ authFiles = {}
       \/ \E p \in Phones :
             /\ transports = <<[NewTransport("acct1") EXCEPT !.st = "open", !.info = p]>>
             /\ sessions = MapSet(EmptyMap, "acct1", 1)
             /\ connectionStatus = MapSet(EmptyMap, "acct1", StatusConnected(p))
             /\ authFiles = {"acct1"}
    /\ qrCodes = EmptyMap
    /\ inflight = EmptyBag
    /\ startingBg = [a \in Accounts |-> 0]
    /\ timers = [a \in Accounts |-> 0]
    /\ renders = {}
    /\ out = Silent

NextCheck ==
    \/ \E a \in cap.accounts, numbers \in NumberLists : W_CheckNumbers(a, numbers)
    \/ \E r \in BagToSet(inflight), o \in QueryOutcomes : W_GetNumberIdReturn(r, o)
    \/ \E a \in cap.accounts, numbers \in NumberLists : B_CheckNumbers(a, numbers)
    \/ \E r \in BagToSet(inflight), o \in QueryOutcomes : B_OnWhatsAppReturn(r, o)

SpecCheck == InitCheck /\ [][NextCheck]_vars

Next == NextBaileys \/ NextWweb \/ NextOld \/ NextCommon

Spec == Init /\ [][Next]_vars
SpecWide == InitWide /\ [][Next]_vars
SpecTwo == InitTwo /\ [][Next]_vars
SpecQr == InitQr /\ [][Next]_vars
SpecOverlap == InitOverlap /\ [][Next]_vars

--------------------------------------------------------------------------
(* Properties *)

\* a suspended connect handler (r, or r with the other overtaken mark) resumes in this step
Pending(b, r) ==
    Copies(b, [r EXCEPT !.overtaken = TRUE]) + Copies(b, [r EXCEPT !.overtaken = FALSE])
ConnectResumes(r) == r.kind = "connect" /\ Pending(inflight', r) < Pending(inflight, r)
\* the tables and the transports of the next state are those of this one
TablesUnchanged ==
    /\ sessions' = sessions
    /\ qrCodes' = qrCodes
    /\ connectionStatus' = connectionStatus
    /\ transports' = transports

\* C1: in every reachable state every account has at most one live transport
\* (created, and neither closed nor destroyed); the registry, a Map, holds at
\* most one record per account by construction.
C1_AtMostOneLiveTransport ==
    \A a \in Accounts : Cardinality(LiveOf(a)) <= 1

\* C2: when connect requests for an unseen account interleave, exactly one
\* transport is created: a connect that arrived while the account was unseen
\* leaves, when it resumes, the account with one transport.
C2_RacingConnectsOneTransport ==
    [][\A r \in BagToSet(inflight) :
          (ConnectResumes(r) /\ r.saw = "unseen")
          => Cardinality({t \in 1..Len(transports') : transports'[t].acct = r.acct}) = 1]_vars

\* C3: connect is idempotent: a connect request that arrives while the account
\* is Connected or mid-handshake creates no transport and leaves the registry,
\* the status table and the QR cache as they are.
C3_ConnectIdempotent ==
    [][/\ \A r \in BagToSet(inflight) :
             (ConnectResumes(r) /\ r.saw \in {"connected", "handshake"}) => TablesUnchanged
       /\ \A a \in Accounts :
             (IsWweb /\ out'.resp.kind = "connect" /\ out'.resp.acct = a
                /\ Saw(a) \in {"connected", "handshake"}) => TablesUnchanged]_vars

\* C4: once a disconnect request has been answered, whatever the state of the
\* account was and whether or not logout succeeded, the registry no longer
\* holds the account.
C4_DisconnectRemovesAccount ==
    out.resp.kind = "disconnect" => ~MapHas(sessions, out.resp.acct)

\* C5: overlapping cleanups perform each destructive side effect once: on no
\* transport is logout or destroy called twice, and no teardown is notified
\* twice.  (The session directory is deleted behind fs.existsSync, at most once.)
C5_TeardownEffectsOnce ==
    \A t \in TransportIds :
        /\ transports[t].logouts <= 1
        /\ transports[t].destroys <= 1
        /\ transports[t].notes <= 1

\* C6: a close with reason loggedOut schedules no retry; a close with any other
\* reason schedules exactly one retry timer and starts no session at the moment
\* of the close.
C6_RetryOnlyAfterDelay ==
    [][\A t \in TransportIds :
          /\ B_OnClose(t, TRUE) => (timers' = timers /\ startingBg' = startingBg)
          /\ B_OnClose(t, FALSE) =>
                /\ timers' = [timers EXCEPT ![transports[t].acct] = @ + 1]
                /\ startingBg' = startingBg
                /\ Len(transports') = Len(transports)]_vars

\* C7: a retry timer that fires when the account is no longer in the registry
\* is skipped: no session start, no transport, no record.
C7_RetrySkippedAfterDisconnect ==
    [][\A a \in Accounts :
          (timers'[a] < timers[a] /\ ~MapHas(sessions, a))
          => /\ startingBg' = startingBg
             /\ transports' = transports
             /\ sessions' = sessions]_vars

\* C8: disconnect wins over an in-flight connect: a connect continuation that
\* resumes after a disconnect of its account has completed registers no
\* transport and no record.
C8_DisconnectWinsOverConnect ==
    [][\A r \in BagToSet(inflight) :
          (r.kind = "connect" /\ r.overtaken /\ Copies(inflight', r) < Copies(inflight, r))
          => (transports' = transports /\ ~MapHas(sessions', r.acct))]_vars

\* C9: a send request for an account that is not Connected is answered 400
\* (not connected) and the transport's send operation is not invoked.
C9_SendRequiresConnected ==
    [][\A a \in Accounts :
          ((B_Send(a) \/ W_Send(a)) /\ AccountState(a) # "Connected")
          => /\ out'.resp = Resp("send", a, 400, "WhatsApp not connected")
             /\ inflight' = inflight]_vars

DefaultShape(resp) ==
    /\ resp.kind = "status" /\ resp.code = 200
    /\ resp.body.qr = NullQr
    /\ ~resp.body.connected
    /\ resp.body.phone = "null"

\* C11: a status request for an account for which no transport was ever created
\* is answered with the default disconnected shape, never an error, and writes
\* no table.
C11_StatusUnknownAccount ==
    [][\A a \in Accounts :
          ((GetStatus(a) \/ O_Status(a)) /\ TransportsOf(a) = {})
          => /\ out'.resp.acct = a
             /\ DefaultShape(out'.resp)
             /\ TablesUnchanged]_vars

\* status has just answered for an account that has no transport and no record
C11_Witness ==
    /\ out.resp.kind = "status" /\ out.resp.code = 200
    /\ TransportsOf(out.resp.acct) = {}
    /\ ~MapHas(connectionStatus, out.resp.acct)
    /\ ~MapHas(sessions, out.resp.acct)

\* C12: the status answer just given for an account that awaits its scan has a
\* QR and connected false; the one just given for a Connected account whose
\* transport reported phone P is the successful {qr: null, connected: true, phone: P}.
C12_StatusFollowsHandshake ==
    out.resp.kind = "status" =>
        LET a == out.resp.acct IN
        /\ AccountState(a) = "AwaitingScan"
              => /\ out.resp.code = 200
                 /\ out.resp.body.qr # NullQr
                 /\ ~out.resp.body.connected
        /\ AccountState(a) = "Connected"
              => /\ out.resp.code = 200
                 /\ out.resp.body.qr = NullQr
                 /\ out.resp.body.connected
                 /\ out.resp.body.phone = transports[sessions[a]].info

\* C13: when a disconnect request for a Connected account completes, status
\* answers the default disconnected shape for the account from then on.
C13_StatusAfterDisconnect ==
    [][\A a \in Accounts :
          (out'.resp.kind = "disconnect" /\ out'.resp.acct = a
             /\ AccountState(a) = "Connected")
          => DefaultShape(StatusAnswer(a))']_vars

\* the "disconnected" notifications the step has fired for account a
Disconnected(a) ==
    {i \in 1..Len(out.notes) : out.notes[i].acct = a /\ out.notes[i].status = "disconnected"}
\* a teardown of account a is under way: a cleanup, or a disconnect route waiting
\* for logout, is suspended
TearingDown(a) ==
    \E r \in BagToSet(inflight) : r.acct = a /\ r.kind \in {"cleanup", "disconnect"}

\* C14: teardown order: the "disconnected" notification comes last, so it is
\* never fired for an account that the registry still holds.
C14_NotifiedAfterRemoval ==
    \A a \in Accounts : Disconnected(a) # {} => ~MapHas(sessions, a)

\* the step in which the logout or the destroy of a teardown fails
TeardownStepFails(r) ==
    \/ B_LogoutFail(r)
    \/ W_LogoutReturn(r, FALSE)
    \/ W_DestroyReturn(r, FALSE)
    \/ \E rmOk \in BOOLEAN : O_LogoutReturn(r, FALSE, rmOk)
    \/ \E rmOk \in BOOLEAN : O_DestroyReturn(r, FALSE, rmOk)

\* C15: teardown never aborts partway: when the logout or the destroy of a
\* teardown fails, no error is answered to the disconnect caller, and the
\* teardown goes on (it is still under way, or the record is already removed).
C15_TeardownNeverAborts ==
    [][\A r \in BagToSet(inflight) :
          TeardownStepFails(r)
          => /\ out'.resp.kind = "disconnect" => out'.resp.code = 200
             /\ TearingDown(r.acct)' \/ ~MapHas(sessions', r.acct)]_vars

\* C16: disconnect answers success only after the full cleanup: the account has
\* no live transport, no record in the registry and no persisted credentials.
C16_RespondsAfterCleanup ==
    (out.resp.kind = "disconnect" /\ out.resp.code = 200) =>
        /\ LiveOf(out.resp.acct) = {}
        /\ ~MapHas(sessions, out.resp.acct)
        /\ out.resp.acct \notin authFiles

\* C17: a connect request that arrives while a teardown of the account is under
\* way is answered with an error and creates no transport and no record.
C17_ConnectDuringTeardown ==
    [][\A a \in Accounts :
          ((B_Connect(a) \/ W_Connect(a) \/ O_Connect(a)) /\ TearingDown(a))
          => /\ out'.resp.kind = "connect" /\ out'.resp.code >= 400
             /\ TablesUnchanged
             /\ inflight' = inflight]_vars

\* C18: a failed notification is neither propagated nor retried: the step in
\* which the POST fails only logs; it answers no caller, writes no table, stops
\* or starts no handler, timer or transport, and does not fire the notification
\* again, exactly as the step in which the POST succeeds.
C18_NotificationFailureIgnored ==
    [][NotifyReturn(FALSE)
          => /\ TablesUnchanged
             /\ UNCHANGED <<inflight, startingBg, timers, renders, authFiles>>
             /\ out'.resp.kind = "log"
             /\ out'.notes = Tail(out.notes)]_vars

\* the "connected" notification of an account has just failed and the account
\* is still Connected
C18_Witness ==
    /\ out.resp.kind = "log" /\ out.resp.body = "Failed to notify PHP backend"
    /\ out.notes = <<>>
    /\ AccountState(out.resp.acct) = "Connected"

\* what the server holds for account b: registry entry and its transport,
\* connection status with the phone, cached QR, credentials on disk
Holdings(b) ==
    [session |-> IF MapHas(sessions, b) THEN <<sessions[b], transports[sessions[b]]>> ELSE <<>>,
     status |-> IF MapHas(connectionStatus, b) THEN <<connectionStatus[b]>> ELSE <<>>,
     qr |-> IF MapHas(qrCodes, b) THEN <<qrCodes[b]>> ELSE <<>>,
     creds |-> b \in authFiles,
     answer |-> StatusAnswer(b)]

\* C19: accounts are independent: every step of an account that acts (request,
\* event, continuation, timer, retry, teardown, failed or not) leaves the
\* holdings of every other account as they are.
C19_AccountsIndependent ==
    [][\A b \in Accounts \ cap.accounts : Holdings(b)' = Holdings(b)]_vars

\* C20: a connect request without account_id is rejected with 400 and has no
\* effect: no transport, no suspended handler, and registry, status and QR
\* tables unchanged.
C20_ConnectMissingId ==
    [][(B_Connect(Missing) \/ W_Connect(Missing) \/ O_Connect(Missing))
          => /\ out' = Out(RespMissing, <<>>)
             /\ TablesUnchanged
             /\ UNCHANGED <<inflight, startingBg, timers, renders, authFiles>>]_vars

\* a connect without account_id has just been rejected while an account is
\* registered
C20_Witness ==
    /\ out.resp = RespMissing
    /\ \E a \in Accounts : MapHas(sessions, a)

\* C21: in every reachable state an account whose phone is set has no pending
\* QR, also when the rendering of a qr event completes after the open/ready
\* event has been handled.
C21_PhoneImpliesNoQr ==
    \A a \in Accounts :
        (MapHas(connectionStatus, a) /\ connectionStatus[a].phone # "null")
        => ~MapHas(qrCodes, a)

\* the transitions of the design's table (spec 4.1), as pairs <<from, to>>.  An
\* account without a record reads as Idle, so Terminated is written "Idle"; a
\* handler that closes and terminates in one step takes close and loggedOut at once
TableSteps ==
    {<<"Idle", "Initializing">>}
    \cup ({"Initializing", "AwaitingScan"} \X {"AwaitingScan"})
    \cup ({"Initializing", "AwaitingScan"} \X {"Authenticating"})
    \cup ({"Initializing", "Authenticating"} \X {"Connected"})
    \cup ((MidHandshake \cup {"Connected"}) \X {"Closing"})
    \cup {<<"Closing", "Idle">>, <<"Closing", "Initializing">>}
    \cup ((MidHandshake \cup {"Connected"}) \X {"Idle"})

\* C22: every change of an account's state is one of the transitions of the
\* table; no step of the program produces any other state change.
C22_OnlyTableTransitions ==
    [][\A a \in Accounts :
          AccountState(a)' # AccountState(a)
          => <<AccountState(a), AccountState(a)'>> \in TableSteps]_vars

\* C23: an authenticated event that arrives after the open event of the same
\* account is a no-op: the account's record and the answer of status are the
\* same before and after it.
C23_LateAuthenticatedNoOp ==
    [][\A t \in TransportIds :
          ((W_OnAuthenticated(t) \/ O_OnAuthenticated(t)) /\ transports[t].st = "open")
          => /\ TablesUnchanged
             /\ StatusAnswer(transports[t].acct)' = StatusAnswer(transports[t].acct)]_vars

\* the step in which the transport t delivers its close event
CloseEvent(t) ==
    \/ \E lo \in BOOLEAN : B_OnClose(t, lo)
    \/ \E logout, rmOk \in BOOLEAN : W_OnDisconnected(t, logout, rmOk)
    \/ \E terminal, rmOk \in BOOLEAN : O_OnTerminal(t, terminal, rmOk)

\* C24: a close event delivered for an account whose teardown has begun is
\* ignored: it changes no table, schedules no retry, starts no further teardown,
\* deletes no credentials and fires no notification; and the step that answers
\* a disconnect request fires at most one "disconnected" notification.
C24_CloseDuringTeardownIgnored ==
    [][/\ \A t \in TransportIds :
             (CloseEvent(t) /\ TearingDown(transports[t].acct))
             => /\ sessions' = sessions
                /\ qrCodes' = qrCodes
                /\ connectionStatus' = connectionStatus
                /\ UNCHANGED <<inflight, startingBg, timers, authFiles>>
                /\ out'.notes = <<>>
       /\ \A a \in Accounts :
             (out'.resp.kind = "disconnect" /\ out'.resp.acct = a)
             => Cardinality(Disconnected(a)') <= 1]_vars

\* C25: the newest QR supersedes older ones: when the last rendering in flight
\* for an account completes, and a later qr event of the account has already
\* been rendered and cached, the cache still holds the rendering of the later QR.
C25_NewestQrSupersedes ==
    [][\A rd \in renders :
          (/\ RenderDone(rd, TRUE)
           /\ rd.newer # NoQr
           /\ MapHas(qrCodes, rd.acct) /\ qrCodes[rd.acct] = ToDataURL(rd.newer)
           /\ ~\E other \in renders \ {rd} : other.acct = rd.acct)
          => qrCodes'[rd.acct] = ToDataURL(rd.newer)]_vars

\* C26: status is read-only: a status request never modifies the registry, the
\* connection-status table or the QR cache, for any account and in any state.
C26_StatusReadOnly ==
    [][\A a \in Accounts :
          (GetStatus(a) \/ O_Status(a))
          => /\ sessions' = sessions
             /\ connectionStatus' = connectionStatus
             /\ qrCodes' = qrCodes]_vars

\* C27: the phone of an account, once set by open, is cleared only by a
\* terminal teardown: a close event with a retryable (non-loggedOut) reason
\* leaves the recorded phone unchanged.
C27_RetryableCloseKeepsPhone ==
    [][\A t \in TransportIds :
          (B_OnClose(t, FALSE) /\ MapHas(connectionStatus, transports[t].acct))
          => connectionStatus'[transports[t].acct].phone
               = connectionStatus[transports[t].acct].phone]_vars

\* the step removes neither the registry record nor the credentials of account a
KeepsRecordAndCredentials(a) ==
    /\ MapHas(sessions, a) => MapHas(sessions', a)
    /\ a \in authFiles => a \in authFiles'
\* a step of the teardown that a close with a retryable reason has started
RetryableTeardownStep(r) ==
    /\ r.kind = "cleanup" /\ ~r.terminal
    /\ \/ \E rmOk \in BOOLEAN : W_Settle2(r, rmOk)
       \/ \E ok, rmOk \in BOOLEAN : O_DestroyReturn(r, ok, rmOk)

\* C28: credentials and the registry record of an account are removed only by a
\* terminal teardown: neither a close event with a retryable reason nor anything
\* that close has started deletes the credentials or removes the record.
C28_RetryableCloseKeepsRecord ==
    [][/\ \A t \in TransportIds :
             (\/ B_OnClose(t, FALSE)
              \/ \E rmOk \in BOOLEAN : W_OnDisconnected(t, FALSE, rmOk)
              \/ \E rmOk \in BOOLEAN : O_OnTerminal(t, FALSE, rmOk))
             => KeepsRecordAndCredentials(transports[t].acct)
       /\ \A r \in BagToSet(inflight) :
             RetryableTeardownStep(r) => KeepsRecordAndCredentials(r.acct)]_vars

\* C29: every transition of an account to Connected fires exactly one
\* "connected" notification carrying the account's id and the phone the
\* transport reported, and no "connected" notification is fired at any other time.
C29_ConnectedNotifiedOnce ==
    [][\A a \in Accounts :
          LET becomes == AccountState(a)' = "Connected" /\ AccountState(a) # "Connected"
              fired == {i \in 1..Len(out'.notes) :
                           out'.notes[i].acct = a /\ out'.notes[i].status = "connected"}
          IN /\ becomes => /\ Cardinality(fired) = 1
                           /\ \A i \in fired :
                                 out'.notes[i].phone = transports'[sessions'[a]].info
             /\ (~becomes /\ out'.resp.kind # "log") => fired = {}]_vars

\* C30: the group-listing request retries a bounded number of times: it invokes
\* getChats at most 3 times and never holds more than 2 failed attempts while
\* suspended, and when its wait ends with the account no longer in the registry
\* it stops retrying: it answers the failure in that step.
C30_GroupsRetryBounded ==
    [][/\ \A r \in BagToSet(inflight') :
             r.kind = "groups" => (r.calls <= MaxAttempts /\ r.attempts < MaxAttempts)
       /\ \A r \in BagToSet(inflight) :
             (W_GroupsWaitDone(r) /\ ~MapHas(sessions, r.acct))
             => /\ inflight' = Resume(r)
                /\ out'.resp = RespGroupsFailed(r.acct)]_vars

\* C31: at startup, in the state app.listen's callback leaves, a session start
\* is under way for every account that has a credential directory and for no
\* other account, and no account has a record; and the failed restoration of
\* one account leaves the session starts of the other accounts as they are.
C31_RestoreAtStartup ==
    [][/\ out = Listening
             => \A a \in Accounts :
                   /\ startingBg[a] = IF a \in authFiles THEN 1 ELSE 0
                   /\ ~MapHas(sessions, a)
       /\ \A a \in Accounts :
             B_StartSessionFail(a)
             => \A b \in Accounts \ {a} : startingBg'[b] = startingBg[b]]_vars

\* C32: an asynchronous failure of one account's transport that nothing handles
\* never terminates the process: in every reachable state the process is
\* running, so it goes on serving the requests of every account.
C32_ProcessSurvives ==
    running

\* C33: whenever status would report connected:true for an account, the
\* registry holds a transport for the account; status never reports an account
\* as connected after its registry entry has been removed.
C33_ConnectedImpliesRegistered ==
    \A a \in Accounts :
        (StatusAnswer(a).code = 200 /\ StatusAnswer(a).body.connected)
        => MapHas(sessions, a)

\* C34: status never reports connected:true and authenticating:true together
\* for an account, whatever qr, authenticated, open/ready and close events
\* have been handled.
C34_NotConnectedAndAuthenticating ==
    \A a \in Accounts :
        (StatusAnswer(a).code = 200 /\ StatusAnswer(a).body.connected)
        => ~StatusAnswer(a).body.authenticating

\* the step in which POST /api/whatsapp/disconnect for account a is handled
DisconnectRoute(a) ==
    \/ B_Disconnect(a)
    \/ \E rmOk \in BOOLEAN : W_Disconnect(a, rmOk)
    \/ \E rmOk \in BOOLEAN : O_Disconnect(a, rmOk)
RespDisconnected(a) == Resp("disconnect", a, 200, "success")

\* C35: a disconnect for an account without a record in the registry succeeds
\* in that step, invokes no transport operation (no transport changes, no
\* handler waits for a logout or a destroy) and leaves the registry unchanged;
\* when it follows a completed disconnect of the account, the status table,
\* the QR cache and the answer of status are also those the first one left
\* (the credential directory, which every cleanup tries to delete, is never
\* created by it).
C35_DisconnectWithoutRecord ==
    [][\A a \in Accounts :
          (DisconnectRoute(a) /\ ~MapHas(sessions, a))
          => /\ out'.resp = RespDisconnected(a)
             /\ transports' = transports
             /\ BagCardinality(inflight') = BagCardinality(inflight)
             /\ sessions' = sessions
             /\ a \notin authFiles => a \notin authFiles'
             /\ out.resp = RespDisconnected(a)
                   => /\ qrCodes' = qrCodes
                      /\ connectionStatus' = connectionStatus
                      /\ StatusAnswer(a)' = StatusAnswer(a)]_vars

\* a disconnect has just been answered with success for an account that never
\* had a transport; nothing is registered and no handler is suspended
C35_Witness ==
    /\ out.resp.kind = "disconnect" /\ out.resp.code = 200
    /\ out.resp.acct \in Accounts
    /\ TransportsOf(out.resp.acct) = {}
    /\ ~MapHas(sessions, out.resp.acct)
    /\ inflight = EmptyBag

\* results has one element per element of asked, in the same order, and a
\* number that is empty after stripping its non-digits is reported invalid
OnePerInput(asked, results) ==
    /\ Len(results) = Len(asked)
    /\ \A i \in 1..Len(asked) :
          /\ results[i].input = asked[i]
          /\ Clean(asked[i]) = <<>> => ~results[i].valid
\* the step in which an existence query of the request r settles with outcome o
QuerySettles(r, o) == W_GetNumberIdReturn(r, o) \/ B_OnWhatsAppReturn(r, o)

\* C36: check-numbers on a connected account answers success with one result
\* per input number, in input order; a number that is empty after stripping
\* non-digits is reported valid:false; a query that fails does not fail the
\* batch, and the number it was made for is reported valid:false.
C36_CheckNumbersOnePerInput ==
    [][/\ \A a \in Accounts, numbers \in NumberLists :
             ((W_CheckNumbers(a, numbers) \/ B_CheckNumbers(a, numbers))
                /\ out'.resp.kind = "check" /\ out'.resp.code = 200)
             => OnePerInput(numbers, out'.resp.body)
       /\ \A r \in BagToSet(inflight), o \in QueryOutcomes :
             (QuerySettles(r, o) /\ out'.resp.kind = "check")
             => /\ out'.resp.code = 200
                /\ OnePerInput(r.asked, out'.resp.body)
                /\ o = "fails" => ~out'.resp.body[Len(r.asked) - Len(r.numbers) + 1].valid]_vars

==========================================================================
